---- MODULE Spec2Model ----
(***************************************************************************)
(* Factory (coordinator) and offspring (instance) contracts of             *)
(* secret-factory-contract, as a state machine.  One action per message    *)
(* handler; a handler that returns Err leaves the storage as it was (the   *)
(* host discards the writes of a failed transaction).                      *)
(***************************************************************************)
EXTENDS Integers, Sequences, FiniteSets, TLC

(* ------------------------------ bounds -------------------------------- *)
\* number of create_offspring calls that are explored
MaxCreates == 2
\* number of distinct viewing-key strings callers choose from
MaxKeys == 2
\* number of create_viewing_key calls that are explored
MaxKeyCreates == 2
\* number of offspring the paging of the lists is explored with
MaxListed == 3
\* the counter value up to which increments from small values are explored
MaxCount == 2

(* ------------------------------ inputs -------------------------------- *)
\* the account that instantiates the factory
InitSender == "admin"
\* accounts that own offspring and hold viewing keys
Owners == {"alice", "bob"}
\* addresses the chain gives to instantiated contracts, in order
ContractAddrs == <<"c1", "c2", "c3", "c4">>
\* every contract address
Offspring == {ContractAddrs[i] : i \in 1..Len(ContractAddrs)}
\* the first n contract addresses: senders of register / deactivate messages
Senders(n) == {ContractAddrs[i] : i \in 1..n}
\* senders of admin messages
AdminSenders == {InitSender, "alice"}
Labels == {"l1", "l2"}
\* caller-supplied entropy strings
Entropies == {1}
CodeInfos == {[code_id |-> 1, code_hash |-> "h1"], [code_id |-> 2, code_hash |-> "h2"]}
InitCodeInfo == [code_id |-> 1, code_hash |-> "h1"]
\* the slot of the viewing-key store that holds its seed
SEED_KEY == "::seed"
\* Option<T>: None is <<>>, Some(x) is <<x>>
None == <<>>
Some(x) == <<x>>
IsSome(o) == o # <<>>
Unwrap(o) == o[1]

(* ------------------------- rand.rs (sha_256, Prng) --------------------- *)
\* sha_256: collision free on the values explored, never the all-zero string
sha_256(x) == x + 1

\* block heights, block times and senders an Env may carry, in a fixed order
Heights == <<1, 2>>
Times == <<1, 2>>
EnvSenders == <<InitSender, "alice", "bob">>

\* the blocks messages arrive in
Blocks == {[height |-> Heights[i], time |-> Times[i]] : i \in 1..Len(Heights)}

\* the first of them alone
FirstBlock == {[height |-> Heights[1], time |-> Times[1]]}

Env(block, sender) == [block |-> block, message |-> [sender |-> sender]]

IndexIn(seq, x) == CHOOSE i \in 1..Len(seq) : seq[i] = x

\* the bytes new_entropy feeds to the Prng: block height, block time, sender
\* and the entropy of the message
rng_entropy(env, entropy) ==
    <<env.block.height, env.block.time, env.message.sender, entropy>>

\* the number of byte strings rng_entropy can give, plus one
RngRadix == Len(Heights) * Len(Times) * Len(EnvSenders) * Cardinality(Entropies) + 1

\* Prng::new(seed, entropy).rand_bytes(): a different value for every seed
\* and every entropy string
Prng_rand_bytes(seed, e) ==
    seed * RngRadix
    + (((IndexIn(Heights, e[1]) - 1) * Len(Times) + (IndexIn(Times, e[2]) - 1))
          * Len(EnvSenders) + (IndexIn(EnvSenders, e[3]) - 1)) * Cardinality(Entropies)
    + e[4]

new_entropy(env, seed, entropy) == Prng_rand_bytes(seed, rng_entropy(env, entropy))

\* a 32-byte string that differs from p in one byte; never a minted password
AlterByte(p) == 0 - p

(* ------------------- Keymap<HumanAddr, bool> as key sequence ----------- *)
KeymapContains(m, k) == \E i \in 1..Len(m) : m[i] = k

\* Keymap::get(..).unwrap_or(false): every stored value is true
KeymapGetOrFalse(m, k) == KeymapContains(m, k)

\* Keymap::insert: an existing key keeps its position, a new key is appended
KeymapInsert(m, k) == IF KeymapContains(m, k) THEN m ELSE Append(m, k)

KeymapPos(m, k) == CHOOSE i \in 1..Len(m) : m[i] = k

\* mutation: the last key is dropped, whichever key was named
KeymapRemove_last(m, k) ==
    IF ~KeymapContains(m, k)
    THEN [ok |-> FALSE, m |-> m]
    ELSE [ok |-> TRUE, m |-> SubSeq(m, 1, Len(m) - 1)]

\* Keymap::remove: Err when the key is absent; otherwise the last key takes
\* the place of the removed one
KeymapRemove(m, k) ==
    IF ~KeymapContains(m, k)
    THEN [ok |-> FALSE, m |-> m]
    ELSE LET p == KeymapPos(m, k)
             n == Len(m)
         IN [ok |-> TRUE,
             m  |-> IF p = n THEN SubSeq(m, 1, n - 1)
                    ELSE [i \in 1..(n - 1) |-> IF i = p THEN m[n] ELSE m[i]]]

(* ------------------------------ state --------------------------------- *)
VARIABLES
    IS_STOPPED,         \* factory: Item<bool>
    ADMIN,              \* factory: Item<HumanAddr>
    PENDING_PASSWORD,   \* factory: Item<[u8;32]>, an Option
    OFFSPRING_CODE,     \* factory: Item<CodeInfo>
    PRNG_SEED,          \* factory: Item<Vec<u8>>
    OFFSPRING_STORAGE,  \* factory: Keymap<HumanAddr, StoreOffspringInfo>
    ACTIVE_STORE,       \* factory: Keymap<HumanAddr, bool>
    INACTIVE_STORE,     \* factory: Keymap<HumanAddr, bool>
    OWNERS_ACTIVE,      \* factory: Keymap per owner suffix
    OWNERS_INACTIVE,    \* factory: Keymap per owner suffix
    VIEWING_KEYS,       \* factory: ViewingKeyStore, hashed key per account
    instances,          \* offspring contracts: OWNER, IS_ACTIVE, STATE per address
    n_creates,          \* history: successful create_offspring calls
    n_registers,        \* history: successful register_offspring calls
    minted,             \* history: passwords minted, oldest first
    minted_code,        \* history: the offspring code each of them was minted for
    reg_owners,         \* history: owners each address registered with, oldest first
    last                \* history: the last message handled and its result

factory_vars == <<IS_STOPPED, ADMIN, PENDING_PASSWORD, OFFSPRING_CODE, PRNG_SEED,
                  OFFSPRING_STORAGE, ACTIVE_STORE, INACTIVE_STORE, OWNERS_ACTIVE,
                  OWNERS_INACTIVE, VIEWING_KEYS>>
history_vars == <<n_creates, n_registers, minted, minted_code, reg_owners, last>>
vars == <<factory_vars, instances, history_vars>>

\* the factory's storage as one value, as the handlers see it
Storage == [IS_STOPPED |-> IS_STOPPED, ADMIN |-> ADMIN,
            PENDING_PASSWORD |-> PENDING_PASSWORD, OFFSPRING_CODE |-> OFFSPRING_CODE,
            PRNG_SEED |-> PRNG_SEED, OFFSPRING_STORAGE |-> OFFSPRING_STORAGE,
            ACTIVE_STORE |-> ACTIVE_STORE, INACTIVE_STORE |-> INACTIVE_STORE,
            OWNERS_ACTIVE |-> OWNERS_ACTIVE, OWNERS_INACTIVE |-> OWNERS_INACTIVE,
            VIEWING_KEYS |-> VIEWING_KEYS]

Ok(s, msgs) == [ok |-> TRUE, s |-> s, msgs |-> msgs]
Err(s) == [ok |-> FALSE, s |-> s, msgs |-> <<>>]

(* --------------------------- factory handlers -------------------------- *)
\* mutation: the admin is not taken from the sender of the InitMsg
init_admin_unset(sender, entropy, offspring_code_info) ==
    [IS_STOPPED |-> FALSE, ADMIN |-> "", PENDING_PASSWORD |-> None,
     OFFSPRING_CODE |-> offspring_code_info, PRNG_SEED |-> sha_256(entropy),
     OFFSPRING_STORAGE |-> [a \in Offspring |-> None],
     ACTIVE_STORE |-> <<>>, INACTIVE_STORE |-> <<>>,
     OWNERS_ACTIVE |-> [o \in Owners |-> <<>>],
     OWNERS_INACTIVE |-> [o \in Owners |-> <<>>],
     VIEWING_KEYS |-> [a \in Owners \cup {SEED_KEY} |-> None]]

\* init: the storage the factory starts with
init(sender, entropy, offspring_code_info) ==
    [IS_STOPPED |-> FALSE, ADMIN |-> sender, PENDING_PASSWORD |-> None,
     OFFSPRING_CODE |-> offspring_code_info, PRNG_SEED |-> sha_256(entropy),
     OFFSPRING_STORAGE |-> [a \in Offspring |-> None],
     ACTIVE_STORE |-> <<>>, INACTIVE_STORE |-> <<>>,
     OWNERS_ACTIVE |-> [o \in Owners |-> <<>>],
     OWNERS_INACTIVE |-> [o \in Owners |-> <<>>],
     VIEWING_KEYS |-> [a \in Owners \cup {SEED_KEY} |-> None]]

\* the entropy string of the InitMsg
InitEntropy == Cardinality(Entropies)

\* mutation: a password that is still pending is not overwritten
try_create_offspring_keeps_pending(s, env, label, entropy, owner, count) ==
    IF s.IS_STOPPED
    THEN Err(s)
    ELSE LET new_prng_bytes == new_entropy(env, s.PRNG_SEED, entropy)
             s1 == [s EXCEPT !.PRNG_SEED = new_prng_bytes]
             password == sha_256(new_prng_bytes)
             s2 == IF IsSome(s1.PENDING_PASSWORD) THEN s1
                   ELSE [s1 EXCEPT !.PENDING_PASSWORD = Some(password)]
             initmsg == [label |-> label, password |-> password,
                         owner |-> owner, count |-> count]
         IN Ok(s2, <<[code |-> s2.OFFSPRING_CODE, init |-> initmsg]>>)

try_create_offspring(s, env, label, entropy, owner, count) ==
    IF s.IS_STOPPED
    THEN Err(s)
    ELSE LET new_prng_bytes == new_entropy(env, s.PRNG_SEED, entropy)
             s1 == [s EXCEPT !.PRNG_SEED = new_prng_bytes]
             password == sha_256(new_prng_bytes)
             s2 == [s1 EXCEPT !.PENDING_PASSWORD = Some(password)]
             initmsg == [label |-> label, password |-> password,
                         owner |-> owner, count |-> count]
         IN Ok(s2, <<[code |-> s2.OFFSPRING_CODE, init |-> initmsg]>>)

\* CodeInfo::to_contract_info
to_contract_info(code_info, contract_addr) ==
    [code_hash |-> code_info.code_hash, address |-> contract_addr]

\* RegisterOffspringInfo::to_store_offspring_info
to_store_offspring_info(reg_offspring, contract) ==
    [contract |-> contract, label |-> reg_offspring.label]

\* mutation: the pending password is not removed after a match
try_register_offspring_keeps_pending(s, sender, owner, reg_offspring) ==
    IF ~IsSome(s.PENDING_PASSWORD)
    THEN Err(s)
    ELSE IF Unwrap(s.PENDING_PASSWORD) # reg_offspring.password
    THEN Err(s)
    ELSE LET offspring_info == to_contract_info(s.OFFSPRING_CODE, sender)
             offspring == to_store_offspring_info(reg_offspring, offspring_info)
             s2 == [s EXCEPT !.OFFSPRING_STORAGE[offspring_info.address] = Some(offspring)]
             s3 == [s2 EXCEPT !.ACTIVE_STORE = KeymapInsert(@, offspring_info.address)]
             s4 == [s3 EXCEPT !.OWNERS_ACTIVE[owner] = KeymapInsert(@, offspring_info.address)]
         IN Ok(s4, <<>>)

\* mutation: any password is accepted while one is pending
try_register_offspring_no_compare(s, sender, owner, reg_offspring) ==
    IF ~IsSome(s.PENDING_PASSWORD)
    THEN Err(s)
    ELSE LET s1 == [s EXCEPT !.PENDING_PASSWORD = None]
             offspring_info == to_contract_info(s1.OFFSPRING_CODE, sender)
             offspring == to_store_offspring_info(reg_offspring, offspring_info)
             s2 == [s1 EXCEPT !.OFFSPRING_STORAGE[offspring_info.address] = Some(offspring)]
             s3 == [s2 EXCEPT !.ACTIVE_STORE = KeymapInsert(@, offspring_info.address)]
             s4 == [s3 EXCEPT !.OWNERS_ACTIVE[owner] = KeymapInsert(@, offspring_info.address)]
         IN Ok(s4, <<>>)

\* mutation: the sender enters the indices but its record is not stored
try_register_offspring_no_record(s, sender, owner, reg_offspring) ==
    IF ~IsSome(s.PENDING_PASSWORD)
    THEN Err(s)
    ELSE IF Unwrap(s.PENDING_PASSWORD) # reg_offspring.password
    THEN Err(s)
    ELSE LET s1 == [s EXCEPT !.PENDING_PASSWORD = None]
             offspring_info == to_contract_info(s1.OFFSPRING_CODE, sender)
             s3 == [s1 EXCEPT !.ACTIVE_STORE = KeymapInsert(@, offspring_info.address)]
             s4 == [s3 EXCEPT !.OWNERS_ACTIVE[owner] = KeymapInsert(@, offspring_info.address)]
         IN Ok(s4, <<>>)

\* mutation: a stopped factory registers nothing
try_register_offspring_when_running(s, sender, owner, reg_offspring) ==
    IF s.IS_STOPPED \/ ~IsSome(s.PENDING_PASSWORD)
    THEN Err(s)
    ELSE IF Unwrap(s.PENDING_PASSWORD) # reg_offspring.password
    THEN Err(s)
    ELSE LET s1 == [s EXCEPT !.PENDING_PASSWORD = None]
             offspring_info == to_contract_info(s1.OFFSPRING_CODE, sender)
             offspring == to_store_offspring_info(reg_offspring, offspring_info)
             s2 == [s1 EXCEPT !.OFFSPRING_STORAGE[offspring_info.address] = Some(offspring)]
             s3 == [s2 EXCEPT !.ACTIVE_STORE = KeymapInsert(@, offspring_info.address)]
             s4 == [s3 EXCEPT !.OWNERS_ACTIVE[owner] = KeymapInsert(@, offspring_info.address)]
         IN Ok(s4, <<>>)

try_register_offspring(s, sender, owner, reg_offspring) ==
    IF ~IsSome(s.PENDING_PASSWORD)
    THEN Err(s)
    ELSE IF Unwrap(s.PENDING_PASSWORD) # reg_offspring.password
    THEN Err(s)
    ELSE LET s1 == [s EXCEPT !.PENDING_PASSWORD = None]
             offspring_info == to_contract_info(s1.OFFSPRING_CODE, sender)
             offspring == to_store_offspring_info(reg_offspring, offspring_info)
             s2 == [s1 EXCEPT !.OFFSPRING_STORAGE[offspring_info.address] = Some(offspring)]
             s3 == [s2 EXCEPT !.ACTIVE_STORE = KeymapInsert(@, offspring_info.address)]
             s4 == [s3 EXCEPT !.OWNERS_ACTIVE[owner] = KeymapInsert(@, offspring_info.address)]
         IN Ok(s4, <<>>)

\* mutation: the result of removing from the owner's active index is ignored
try_deactivate_offspring_ignores_remove_error(s, sender, owner) ==
    LET is_active == KeymapGetOrFalse(s.ACTIVE_STORE, sender)
        r1 == KeymapRemove(s.ACTIVE_STORE, sender)
        s1 == [s EXCEPT !.ACTIVE_STORE = r1.m]
        s2 == [s1 EXCEPT !.INACTIVE_STORE = KeymapInsert(@, sender)]
        r3 == KeymapRemove(s2.OWNERS_ACTIVE[owner], sender)
        s3 == [s2 EXCEPT !.OWNERS_ACTIVE[owner] = r3.m]
        s4 == [s3 EXCEPT !.OWNERS_INACTIVE[owner] = KeymapInsert(@, sender)]
    IN IF ~is_active THEN Err(s) ELSE Ok(s4, <<>>)

\* mutation: the sender is not saved to the global inactive index
try_deactivate_offspring_no_inactive(s, sender, owner) ==
    LET r1 == KeymapRemove(s.ACTIVE_STORE, sender)
        s1 == [s EXCEPT !.ACTIVE_STORE = r1.m]
        r3 == KeymapRemove(s1.OWNERS_ACTIVE[owner], sender)
        s3 == [s1 EXCEPT !.OWNERS_ACTIVE[owner] = r3.m]
        s4 == [s3 EXCEPT !.OWNERS_INACTIVE[owner] = KeymapInsert(@, sender)]
    IN IF ~r1.ok THEN Err(s)
       ELSE IF ~r3.ok THEN Err(s1)
       ELSE Ok(s4, <<>>)

\* mutation: the sender is moved to the inactive indices whether or not it
\* was in the active ones
try_deactivate_offspring_unchecked(s, sender, owner) ==
    LET r1 == KeymapRemove(s.ACTIVE_STORE, sender)
        s1 == [s EXCEPT !.ACTIVE_STORE = r1.m]
        s2 == [s1 EXCEPT !.INACTIVE_STORE = KeymapInsert(@, sender)]
        r3 == KeymapRemove(s2.OWNERS_ACTIVE[owner], sender)
        s3 == [s2 EXCEPT !.OWNERS_ACTIVE[owner] = r3.m]
        s4 == [s3 EXCEPT !.OWNERS_INACTIVE[owner] = KeymapInsert(@, sender)]
    IN Ok(s4, <<>>)

try_deactivate_offspring(s, sender, owner) ==
    LET offspring_addr == sender
        is_active == KeymapGetOrFalse(s.ACTIVE_STORE, offspring_addr)
    IN IF ~is_active
       THEN Err(s)
       ELSE LET r1 == KeymapRemove(s.ACTIVE_STORE, offspring_addr)
                s1 == [s EXCEPT !.ACTIVE_STORE = r1.m]
                s2 == [s1 EXCEPT !.INACTIVE_STORE = KeymapInsert(@, offspring_addr)]
                r3 == KeymapRemove(s2.OWNERS_ACTIVE[owner], offspring_addr)
                s3 == [s2 EXCEPT !.OWNERS_ACTIVE[owner] = r3.m]
                s4 == [s3 EXCEPT !.OWNERS_INACTIVE[owner] = KeymapInsert(@, offspring_addr)]
            IN IF ~r1.ok THEN Err(s)
               ELSE IF ~r3.ok THEN Err(s2)
               ELSE Ok(s4, <<>>)

\* mutation: the sender is not compared with the admin
try_new_contract_anyone(s, sender, offspring_code_info) ==
    Ok([s EXCEPT !.OFFSPRING_CODE = offspring_code_info], <<>>)

try_new_contract(s, sender, offspring_code_info) ==
    IF s.ADMIN # sender
    THEN Err(s)
    ELSE Ok([s EXCEPT !.OFFSPRING_CODE = offspring_code_info], <<>>)

\* mutation: the sender is not compared with the admin
try_set_status_anyone(s, sender, stop) == Ok([s EXCEPT !.IS_STOPPED = stop], <<>>)

try_set_status(s, sender, stop) ==
    IF s.ADMIN # sender
    THEN Err(s)
    ELSE Ok([s EXCEPT !.IS_STOPPED = stop], <<>>)

(* --------------------- viewing keys (ViewingKeyStore) ------------------ *)
\* ViewingKey::set: the hash of the key replaces whatever the account had
ViewingKey_set(s, account, key) ==
    [s EXCEPT !.VIEWING_KEYS[account] = Some(sha_256(key))]

\* ViewingKey::check: compares the hash of the presented key with the stored
\* hash, or with the all-zero string when the account has none
ViewingKey_check(s, account, viewing_key) ==
    LET expected_hash == IF IsSome(s.VIEWING_KEYS[account])
                         THEN Unwrap(s.VIEWING_KEYS[account])
                         ELSE 0
    IN expected_hash = sha_256(viewing_key)

\* ViewingKey::create: a key drawn from the store's seed (empty when never
\* set) and the caller's entropy; the seed advances and the key's hash
\* replaces whatever the account had
ViewingKey_create(s, env, account, entropy) ==
    LET seed == IF IsSome(s.VIEWING_KEYS[SEED_KEY]) THEN Unwrap(s.VIEWING_KEYS[SEED_KEY]) ELSE 0
        rand_slice == new_entropy(env, seed, entropy)
        viewing_key == sha_256(rand_slice)
    IN [key |-> viewing_key,
        s |-> [s EXCEPT !.VIEWING_KEYS[account] = Some(sha_256(viewing_key)),
                        !.VIEWING_KEYS[SEED_KEY] = Some(rand_slice)]]

\* mutation: the answer carries the random bytes instead of the key made of them
try_create_key_returns_seed(s, env, entropy) ==
    LET c == ViewingKey_create(s, env, env.message.sender, entropy)
    IN [ok |-> TRUE, s |-> c.s, msgs |-> <<>>, key |-> Unwrap(c.s.VIEWING_KEYS[SEED_KEY])]

try_create_key(s, env, entropy) ==
    LET c == ViewingKey_create(s, env, env.message.sender, entropy)
    IN [ok |-> TRUE, s |-> c.s, msgs |-> <<>>, key |-> c.key]

\* mutation: the key is acknowledged but not stored
try_set_key_not_stored(s, sender, key) == Ok(s, <<>>)

try_set_key(s, sender, key) == Ok(ViewingKey_set(s, sender, key), <<>>)

\* mutation: a key that is valid for any account is accepted
is_key_valid_any_account(s, address, viewing_key) ==
    \E a \in Owners : ViewingKey_check(s, a, viewing_key)

is_key_valid(s, address, viewing_key) == ViewingKey_check(s, address, viewing_key)

(* ------------------------------ queries -------------------------------- *)
\* state.rs: the default number of offspring listed during queries
DEFAULT_PAGE_SIZE == 200

unwrap_or(o, d) == IF IsSome(o) THEN Unwrap(o) ELSE d

\* the builds of the contract: usize has 32 bits on the wasm32 target and 64
\* on a host; an overflowing multiplication wraps, or panics when the profile
\* turns overflow checks on
Builds == {[bits |-> 32, overflow_checks |-> FALSE],
           [bits |-> 32, overflow_checks |-> TRUE],
           [bits |-> 64, overflow_checks |-> FALSE]}

\* a u32 as eight base-256 digits, lowest first
usize_digits(x) ==
    <<x % 256, (x \div 256) % 256, (x \div (256 * 256)) % 256,
      (x \div (256 * 256 * 256)) % 256, 0, 0, 0, 0>>

\* carries of a column sum, from column k upwards
RECURSIVE usize_carry(_, _, _)
usize_carry(cols, k, c) ==
    IF k > 8 THEN <<>>
    ELSE LET v == cols[k] + c
         IN <<v % 256>> \o usize_carry(cols, k + 1, v \div 256)

\* (a as usize) * (b as usize): the exact product of two u32 fits 64 bits; a
\* 32-bit usize keeps its four low digits, or panics when checks are on
usize_mul(build, a, b) ==
    LET x == usize_digits(a)
        y == usize_digits(b)
        cols == <<x[1] * y[1],
                  x[1] * y[2] + x[2] * y[1],
                  x[1] * y[3] + x[2] * y[2] + x[3] * y[1],
                  x[1] * y[4] + x[2] * y[3] + x[3] * y[2] + x[4] * y[1],
                  x[2] * y[4] + x[3] * y[3] + x[4] * y[2],
                  x[3] * y[4] + x[4] * y[3],
                  x[4] * y[4],
                  0>>
        exact == usize_carry(cols, 1, 0)
        overflows == build.bits = 32 /\ \E i \in 5..8 : exact[i] # 0
    IN [panic |-> overflows /\ build.overflow_checks,
        digits |-> IF build.bits = 32
                   THEN [i \in 1..8 |-> IF i <= 4 THEN exact[i] ELSE 0]
                   ELSE exact]

\* the number of elements iter.skip(n) drops from a Keymap key iterator of len
\* elements: skip hands n to the iterator's nth, which moves its u32 position
\* by n as u32, so only the four low digits of n count, on every build
usize_skipped(digits, len) ==
    IF digits[4] # 0
    THEN len
    ELSE LET n == digits[1] + 256 * digits[2] + 256 * 256 * digits[3]
         IN IF n < len THEN n ELSE len

\* iter.skip(n).take(k) over a key sequence
SkipTake(m, n, k) ==
    LET from == n + 1
        to == IF n + k < Len(m) THEN n + k ELSE Len(m)
    IN IF from > to THEN <<>> ELSE SubSeq(m, from, to)

\* mutation: the Active filter reads the inactive indices and the other way round
display_active_or_inactive_list_swapped(build, s, owner, filter, start_page, page_size) ==
    LET start == unwrap_or(start_page, 0)
        size == unwrap_or(page_size, DEFAULT_PAGE_SIZE)
        keymap == IF filter = "Inactive"
                  THEN (IF IsSome(owner) THEN s.OWNERS_ACTIVE[Unwrap(owner)] ELSE s.ACTIVE_STORE)
                  ELSE (IF IsSome(owner) THEN s.OWNERS_INACTIVE[Unwrap(owner)] ELSE s.INACTIVE_STORE)
        offset == usize_mul(build, start, size)
        keys == SkipTake(keymap, usize_skipped(offset.digits, Len(keymap)), size)
    IN IF filter = "All"
       THEN [ok |-> FALSE, list |-> <<>>, err |-> "filter"]
       ELSE IF offset.panic
       THEN [ok |-> FALSE, list |-> <<>>, err |-> "overflow"]
       ELSE IF \E i \in 1..Len(keys) : ~IsSome(s.OFFSPRING_STORAGE[keys[i]])
       THEN [ok |-> FALSE, list |-> <<>>, err |-> "loading"]
       ELSE [ok |-> TRUE, list |-> [i \in 1..Len(keys) |-> Unwrap(s.OFFSPRING_STORAGE[keys[i]])],
             err |-> ""]

\* mutation: the offset is start_page + page_size
display_active_or_inactive_list_adds(build, s, owner, filter, start_page, page_size) ==
    LET start == unwrap_or(start_page, 0)
        size == unwrap_or(page_size, DEFAULT_PAGE_SIZE)
        keymap == IF filter = "Active"
                  THEN (IF IsSome(owner) THEN s.OWNERS_ACTIVE[Unwrap(owner)] ELSE s.ACTIVE_STORE)
                  ELSE (IF IsSome(owner) THEN s.OWNERS_INACTIVE[Unwrap(owner)] ELSE s.INACTIVE_STORE)
        skipped == IF start + size < Len(keymap) THEN start + size ELSE Len(keymap)
        keys == SkipTake(keymap, skipped, size)
    IN IF filter = "All"
       THEN [ok |-> FALSE, list |-> <<>>, err |-> "filter"]
       ELSE IF \E i \in 1..Len(keys) : ~IsSome(s.OFFSPRING_STORAGE[keys[i]])
       THEN [ok |-> FALSE, list |-> <<>>, err |-> "loading"]
       ELSE [ok |-> TRUE, list |-> [i \in 1..Len(keys) |-> Unwrap(s.OFFSPRING_STORAGE[keys[i]])],
             err |-> ""]

\* display_active_or_inactive_list: the filter picks the index, the page is
\* skipped to and taken, every key is resolved to its record
display_active_or_inactive_list(build, s, owner, filter, start_page, page_size) ==
    LET start == unwrap_or(start_page, 0)
        size == unwrap_or(page_size, DEFAULT_PAGE_SIZE)
        keymap == IF filter = "Active"
                  THEN (IF IsSome(owner) THEN s.OWNERS_ACTIVE[Unwrap(owner)] ELSE s.ACTIVE_STORE)
                  ELSE (IF IsSome(owner) THEN s.OWNERS_INACTIVE[Unwrap(owner)] ELSE s.INACTIVE_STORE)
        offset == usize_mul(build, start, size)
        keys == SkipTake(keymap, usize_skipped(offset.digits, Len(keymap)), size)
    IN IF filter = "All"
       THEN [ok |-> FALSE, list |-> <<>>, err |-> "filter"]
       ELSE IF offset.panic
       THEN [ok |-> FALSE, list |-> <<>>, err |-> "overflow"]
       ELSE IF \E i \in 1..Len(keys) : ~IsSome(s.OFFSPRING_STORAGE[keys[i]])
       THEN [ok |-> FALSE, list |-> <<>>, err |-> "loading"]
       ELSE [ok |-> TRUE, list |-> [i \in 1..Len(keys) |-> Unwrap(s.OFFSPRING_STORAGE[keys[i]])],
             err |-> ""]

try_list_active(build, s, start_page, page_size) ==
    display_active_or_inactive_list(build, s, None, "Active", start_page, page_size)

try_list_inactive(build, s, start_page, page_size) ==
    display_active_or_inactive_list(build, s, None, "Inactive", start_page, page_size)

\* mutation: the lists are built without looking at the key
try_list_my_no_key_check(build, s, address, viewing_key, filter, start_page, page_size) ==
    LET types == unwrap_or(filter, "All")
        a == display_active_or_inactive_list(build, s, Some(address), "Active", start_page, page_size)
        i == display_active_or_inactive_list(build, s, Some(address), "Inactive", start_page, page_size)
        want_a == types = "Active" \/ types = "All"
        want_i == types = "Inactive" \/ types = "All"
    IN IF (want_a /\ ~a.ok) \/ (want_i /\ ~i.ok)
       THEN [ok |-> FALSE, answer |-> "Err", active |-> None, inactive |-> None,
                  err |-> IF want_a /\ ~a.ok THEN a.err ELSE i.err]
       ELSE [ok |-> TRUE, answer |-> "ListMyOffspring",
             active |-> IF want_a THEN Some(a.list) ELSE None,
             inactive |-> IF want_i THEN Some(i.list) ELSE None, err |-> ""]

\* mutation: a field that was not asked for is an empty list
try_list_my_empty_lists(build, s, address, viewing_key, filter, start_page, page_size) ==
    IF ~is_key_valid(s, address, viewing_key)
    THEN [ok |-> TRUE, answer |-> "ViewingKeyError", active |-> None, inactive |-> None,
          err |-> ""]
    ELSE LET types == unwrap_or(filter, "All")
             a == display_active_or_inactive_list(build, s, Some(address), "Active", start_page, page_size)
             i == display_active_or_inactive_list(build, s, Some(address), "Inactive", start_page, page_size)
             want_a == types = "Active" \/ types = "All"
             want_i == types = "Inactive" \/ types = "All"
         IN IF (want_a /\ ~a.ok) \/ (want_i /\ ~i.ok)
            THEN [ok |-> FALSE, answer |-> "Err", active |-> None, inactive |-> None,
                  err |-> IF want_a /\ ~a.ok THEN a.err ELSE i.err]
            ELSE [ok |-> TRUE, answer |-> "ListMyOffspring",
                  active |-> IF want_a THEN Some(a.list) ELSE Some(<<>>),
                  inactive |-> IF want_i THEN Some(i.list) ELSE Some(<<>>), err |-> ""]

\* mutation: the filter of the query is handed on to the list helper
try_list_my_passes_filter(build, s, address, viewing_key, filter, start_page, page_size) ==
    IF ~is_key_valid(s, address, viewing_key)
    THEN [ok |-> TRUE, answer |-> "ViewingKeyError", active |-> None, inactive |-> None,
          err |-> ""]
    ELSE LET types == unwrap_or(filter, "All")
             a == display_active_or_inactive_list(build, s, Some(address), types, start_page, page_size)
             i == display_active_or_inactive_list(build, s, Some(address), types, start_page, page_size)
             want_a == types = "Active" \/ types = "All"
             want_i == types = "Inactive" \/ types = "All"
         IN IF (want_a /\ ~a.ok) \/ (want_i /\ ~i.ok)
            THEN [ok |-> FALSE, answer |-> "Err", active |-> None, inactive |-> None,
                  err |-> IF want_a /\ ~a.ok THEN a.err ELSE i.err]
            ELSE [ok |-> TRUE, answer |-> "ListMyOffspring",
                  active |-> IF want_a THEN Some(a.list) ELSE None,
                  inactive |-> IF want_i THEN Some(i.list) ELSE None, err |-> ""]

try_list_my(build, s, address, viewing_key, filter, start_page, page_size) ==
    IF ~is_key_valid(s, address, viewing_key)
    THEN [ok |-> TRUE, answer |-> "ViewingKeyError", active |-> None, inactive |-> None,
          err |-> ""]
    ELSE LET types == unwrap_or(filter, "All")
             a == display_active_or_inactive_list(build, s, Some(address), "Active", start_page, page_size)
             i == display_active_or_inactive_list(build, s, Some(address), "Inactive", start_page, page_size)
             want_a == types = "Active" \/ types = "All"
             want_i == types = "Inactive" \/ types = "All"
         IN IF (want_a /\ ~a.ok) \/ (want_i /\ ~i.ok)
            THEN [ok |-> FALSE, answer |-> "Err", active |-> None, inactive |-> None,
                  err |-> IF want_a /\ ~a.ok THEN a.err ELSE i.err]
            ELSE [ok |-> TRUE, answer |-> "ListMyOffspring",
                  active |-> IF want_a THEN Some(a.list) ELSE None,
                  inactive |-> IF want_i THEN Some(i.list) ELSE None, err |-> ""]

(* -------------------------- offspring handlers ------------------------- *)
\* instantiate: the offspring's storage after construction and its Response,
\* which carries FactoryOffspringInfo as data and no message
instantiate(env, msg) ==
    [ok |-> TRUE,
     inst |-> [owner |-> msg.owner, is_active |-> TRUE, label |-> msg.label,
               count |-> msg.count],
     msgs |-> <<>>,
     data |-> Some([label |-> msg.label, owner |-> msg.owner,
                    address |-> env.address, code_hash |-> env.code_hash])]

\* mutation: the flag is not looked at
enforce_active_always(inst) == TRUE

enforce_active(inst) == inst.is_active

\* the largest and the smallest i32
i32_MAX == 2147483647
i32_MIN == (0 - i32_MAX) - 1

\* try_increment: count += 1 on an i32, which panics at i32::MAX when the
\* build checks overflow and wraps otherwise
try_increment(build, inst) ==
    IF ~enforce_active(inst)
    THEN [ok |-> FALSE, inst |-> inst, msgs |-> <<>>]
    ELSE IF inst.count = i32_MAX /\ build.overflow_checks
    THEN [ok |-> FALSE, inst |-> inst, msgs |-> <<>>]
    ELSE [ok |-> TRUE,
          inst |-> [inst EXCEPT !.count = IF @ = i32_MAX THEN i32_MIN ELSE @ + 1],
          msgs |-> <<>>]

try_reset(inst, sender, count) ==
    IF ~enforce_active(inst)
    THEN [ok |-> FALSE, inst |-> inst, msgs |-> <<>>]
    ELSE IF sender # inst.owner
    THEN [ok |-> FALSE, inst |-> inst, msgs |-> <<>>]
    ELSE [ok |-> TRUE, inst |-> [inst EXCEPT !.count = count], msgs |-> <<>>]

\* mutation: the sender is not compared with the stored owner
try_deactivate_anyone(inst, sender) ==
    IF ~enforce_active(inst)
    THEN [ok |-> FALSE, inst |-> inst, msgs |-> <<>>, err |-> "Inactive"]
    ELSE [ok |-> TRUE, inst |-> [inst EXCEPT !.is_active = FALSE],
          msgs |-> <<[owner |-> inst.owner]>>, err |-> ""]

\* try_deactivate: on success the flag is cleared and one DeactivateOffspring
\* message carrying the stored owner goes to the factory
try_deactivate(inst, sender) ==
    IF ~enforce_active(inst)
    THEN [ok |-> FALSE, inst |-> inst, msgs |-> <<>>, err |-> "Inactive"]
    ELSE IF sender # inst.owner
    THEN [ok |-> FALSE, inst |-> inst, msgs |-> <<>>, err |-> "Unauthorized"]
    ELSE [ok |-> TRUE, inst |-> [inst EXCEPT !.is_active = FALSE],
          msgs |-> <<[owner |-> inst.owner]>>, err |-> ""]

\* the factory's answer to a query an offspring sends: QueryMsg has the
\* variant IsKeyValid, and a message of any other shape fails to parse
factory_query(s, msg) ==
    IF msg.variant = "is_key_valid"
    THEN [ok |-> TRUE, is_valid |-> is_key_valid(s, msg.address, msg.viewing_key)]
    ELSE [ok |-> FALSE]

enforce_valid_viewing_key(s, address, viewing_key) ==
    LET key_valid_response == factory_query(s, [variant |-> "is_key_valid",
                                                address |-> address,
                                                viewing_key |-> viewing_key])
    IN IF ~key_valid_response.ok THEN [ok |-> FALSE, err |-> "query"]
       ELSE IF key_valid_response.is_valid THEN [ok |-> TRUE, err |-> ""]
       ELSE [ok |-> FALSE, err |-> "ViewingKeyOrUnauthorized"]

\* enforce_valid_permit: the signer's address when the factory says the
\* permit is valid
enforce_valid_permit(s, permit) ==
    LET permit_valid_resp == factory_query(s, [variant |-> "is_permit_valid",
                                               permit |-> permit])
    IN IF ~permit_valid_resp.ok THEN [ok |-> FALSE, err |-> "query"]
       ELSE IF permit_valid_resp.is_valid /\ IsSome(permit_valid_resp.address)
       THEN [ok |-> TRUE, addr |-> Unwrap(permit_valid_resp.address), err |-> ""]
       ELSE [ok |-> FALSE, err |-> "Unauthorized"]

\* mutation: the authenticated address is not compared with the stored owner
query_count_any_address(s, inst, permit, address, viewing_key) ==
    LET by_key == IsSome(address) /\ IsSome(viewing_key)
        k == enforce_valid_viewing_key(s, Unwrap(address), Unwrap(viewing_key))
        p == enforce_valid_permit(s, Unwrap(permit))
    IN IF by_key /\ ~k.ok THEN [ok |-> FALSE, count |-> None, err |-> k.err]
       ELSE IF ~by_key /\ IsSome(permit) /\ ~p.ok
       THEN [ok |-> FALSE, count |-> None, err |-> p.err]
       ELSE IF ~by_key /\ ~IsSome(permit)
       THEN [ok |-> FALSE, count |-> None, err |-> "Unauthorized"]
       ELSE [ok |-> TRUE, count |-> Some(inst.count), err |-> ""]

\* query_count: the counter, for the stored owner authenticated by viewing
\* key or by permit
query_count(s, inst, permit, address, viewing_key) ==
    LET by_key == IsSome(address) /\ IsSome(viewing_key)
        k == enforce_valid_viewing_key(s, Unwrap(address), Unwrap(viewing_key))
        p == enforce_valid_permit(s, Unwrap(permit))
        addr == IF by_key THEN Unwrap(address) ELSE p.addr
    IN IF by_key /\ ~k.ok THEN [ok |-> FALSE, count |-> None, err |-> k.err]
       ELSE IF ~by_key /\ IsSome(permit) /\ ~p.ok
       THEN [ok |-> FALSE, count |-> None, err |-> p.err]
       ELSE IF ~by_key /\ ~IsSome(permit)
       THEN [ok |-> FALSE, count |-> None, err |-> "Unauthorized"]
       ELSE IF inst.owner = addr
       THEN [ok |-> TRUE, count |-> Some(inst.count), err |-> ""]
       ELSE [ok |-> FALSE, count |-> None, err |-> "Unauthorized"]

(* ------------------------------ actions -------------------------------- *)
\* a transaction's writes reach the storage only when its handler returned Ok
Commit(r) ==
    LET s == IF r.ok THEN r.s ELSE Storage
    IN /\ IS_STOPPED' = s.IS_STOPPED
       /\ ADMIN' = s.ADMIN
       /\ PENDING_PASSWORD' = s.PENDING_PASSWORD
       /\ OFFSPRING_CODE' = s.OFFSPRING_CODE
       /\ PRNG_SEED' = s.PRNG_SEED
       /\ OFFSPRING_STORAGE' = s.OFFSPRING_STORAGE
       /\ ACTIVE_STORE' = s.ACTIVE_STORE
       /\ INACTIVE_STORE' = s.INACTIVE_STORE
       /\ OWNERS_ACTIVE' = s.OWNERS_ACTIVE
       /\ OWNERS_INACTIVE' = s.OWNERS_INACTIVE
       /\ VIEWING_KEYS' = s.VIEWING_KEYS

Init ==
    LET s == init(InitSender, InitEntropy, InitCodeInfo)
    IN /\ IS_STOPPED = s.IS_STOPPED
       /\ ADMIN = s.ADMIN
       /\ PENDING_PASSWORD = s.PENDING_PASSWORD
       /\ OFFSPRING_CODE = s.OFFSPRING_CODE
       /\ PRNG_SEED = s.PRNG_SEED
       /\ OFFSPRING_STORAGE = s.OFFSPRING_STORAGE
       /\ ACTIVE_STORE = s.ACTIVE_STORE
       /\ INACTIVE_STORE = s.INACTIVE_STORE
       /\ OWNERS_ACTIVE = s.OWNERS_ACTIVE
       /\ OWNERS_INACTIVE = s.OWNERS_INACTIVE
       /\ VIEWING_KEYS = s.VIEWING_KEYS
       /\ instances = [a \in Offspring |-> None]
       /\ n_creates = 0
       /\ n_registers = 0
       /\ minted = <<>>
       /\ minted_code = <<>>
       /\ reg_owners = [a \in Offspring |-> <<>>]
       /\ last = [op |-> "init", ok |-> TRUE]

\* CreateOffspring: the factory handler, then the instantiate message it
\* returned runs the new offspring's constructor at the next free address
CreateOffspring(cap, block, sender, label, entropy, owner, count) ==
    LET r == try_create_offspring(Storage, Env(block, sender), label, entropy, owner, count)
        addr == ContractAddrs[n_creates + 1]
        o == instantiate([address |-> addr, code_hash |-> r.msgs[1].code.code_hash],
                         r.msgs[1].init)
    IN /\ r.ok => n_creates < cap
       /\ Commit(r)
       /\ instances' = IF r.ok THEN [instances EXCEPT ![addr] = Some(o.inst)]
                       ELSE instances
       /\ n_creates' = IF r.ok THEN n_creates + 1 ELSE n_creates
       /\ minted' = IF r.ok THEN Append(minted, r.msgs[1].init.password) ELSE minted
       /\ minted_code' = IF r.ok THEN Append(minted_code, r.msgs[1].code) ELSE minted_code
       /\ last' = [op |-> "create", ok |-> r.ok, msgs |-> IF r.ok THEN o.msgs ELSE <<>>]
       /\ UNCHANGED <<n_registers, reg_owners>>

RegisterOffspring(sender, owner, label, password) ==
    LET r == try_register_offspring(Storage, sender, owner,
                                    [label |-> label, password |-> password])
    IN /\ Commit(r)
       /\ n_registers' = IF r.ok THEN n_registers + 1 ELSE n_registers
       /\ reg_owners' = IF r.ok THEN [reg_owners EXCEPT ![sender] = Append(@, owner)]
                        ELSE reg_owners
       /\ last' = IF r.ok
                  THEN [op |-> "register", sender |-> sender, password |-> password, ok |-> TRUE]
                  ELSE [op |-> "register", password |-> password, ok |-> FALSE]
       /\ UNCHANGED <<instances, n_creates, minted, minted_code>>

\* DeactivateOffspring sent straight to the factory
DeactivateOffspring(sender, owner) ==
    LET r == try_deactivate_offspring(Storage, sender, owner)
    IN /\ Commit(r)
       /\ last' = [op |-> "deactivate", sender |-> sender, owner |-> owner, ok |-> r.ok]
       /\ UNCHANGED <<instances, n_creates, n_registers, minted, minted_code, reg_owners>>

\* mutation: the offspring's write stays when the factory rejects its message
OffspringDeactivate_not_atomic(addr, sender) ==
    /\ IsSome(instances[addr])
    /\ LET o == try_deactivate(Unwrap(instances[addr]), sender)
           r == IF o.ok
                THEN try_deactivate_offspring(Storage, addr, o.msgs[1].owner)
                ELSE Err(Storage)
       IN /\ Commit(r)
          /\ instances' = [instances EXCEPT ![addr] = Some(o.inst)]
          /\ last' = [op |-> "offspring_deactivate", addr |-> addr, sender |-> sender,
                      ok |-> r.ok, msgs |-> o.msgs,
                      err |-> IF ~o.ok THEN o.err ELSE IF ~r.ok THEN "factory" ELSE ""]
    /\ UNCHANGED <<n_creates, n_registers, minted, minted_code, reg_owners>>

\* Deactivate sent to an offspring: its handler, then the message it returned
\* runs the factory's handler in the same transaction
OffspringDeactivate(addr, sender) ==
    /\ IsSome(instances[addr])
    /\ LET o == try_deactivate(Unwrap(instances[addr]), sender)
           r == IF o.ok
                THEN try_deactivate_offspring(Storage, addr, o.msgs[1].owner)
                ELSE Err(Storage)
       IN /\ Commit(r)
          /\ instances' = IF r.ok THEN [instances EXCEPT ![addr] = Some(o.inst)]
                          ELSE instances
          /\ last' = [op |-> "offspring_deactivate", addr |-> addr, sender |-> sender,
                      ok |-> r.ok, msgs |-> o.msgs,
                      err |-> IF ~o.ok THEN o.err ELSE IF ~r.ok THEN "factory" ELSE ""]
    /\ UNCHANGED <<n_creates, n_registers, minted, minted_code, reg_owners>>

\* Increment sent to an offspring
OffspringIncrement(build, addr) ==
    /\ IsSome(instances[addr])
    /\ LET inst == Unwrap(instances[addr])
           o == try_increment(build, inst)
       IN /\ o.ok => \/ (0 <= inst.count /\ inst.count < MaxCount)
                      \/ inst.count >= i32_MAX - 1
          /\ instances' = IF o.ok THEN [instances EXCEPT ![addr] = Some(o.inst)] ELSE instances
          /\ last' = [op |-> "increment", addr |-> addr, ok |-> o.ok]
    /\ UNCHANGED <<factory_vars, n_creates, n_registers, minted, minted_code, reg_owners>>

\* Reset sent to an offspring
OffspringReset(addr, sender, count) ==
    /\ IsSome(instances[addr])
    /\ LET o == try_reset(Unwrap(instances[addr]), sender, count)
       IN /\ instances' = IF o.ok THEN [instances EXCEPT ![addr] = Some(o.inst)] ELSE instances
          /\ last' = [op |-> "reset", addr |-> addr, sender |-> sender, ok |-> o.ok]
    /\ UNCHANGED <<factory_vars, n_creates, n_registers, minted, minted_code, reg_owners>>

\* the GetCount query sent to an offspring
QueryCount(addr, permit, address, viewing_key) ==
    /\ IsSome(instances[addr])
    /\ LET q == query_count(Storage, Unwrap(instances[addr]), permit, address, viewing_key)
       IN last' = [op |-> "get_count", addr |-> addr, permit |-> permit,
                   address |-> address, viewing_key |-> viewing_key,
                   ok |-> q.ok, count |-> q.count]
    /\ UNCHANGED <<factory_vars, instances, n_creates, n_registers, minted, minted_code, reg_owners>>

NewOffspringContract(sender, offspring_code_info) ==
    LET r == try_new_contract(Storage, sender, offspring_code_info)
    IN /\ Commit(r)
       /\ last' = [op |-> "new_contract", sender |-> sender,
                   code |-> offspring_code_info, ok |-> r.ok]
       /\ UNCHANGED <<instances, n_creates, n_registers, minted, minted_code, reg_owners>>

SetStatus(sender, stop) ==
    LET r == try_set_status(Storage, sender, stop)
    IN /\ Commit(r)
       /\ last' = [op |-> "set_status", sender |-> sender, stop |-> stop, ok |-> r.ok]
       /\ UNCHANGED <<instances, n_creates, n_registers, minted, minted_code, reg_owners>>

SetViewingKey(sender, key) ==
    LET r == try_set_key(Storage, sender, key)
    IN /\ Commit(r)
       /\ last' = [op |-> "set_key", sender |-> sender, key |-> key, ok |-> r.ok]
       /\ UNCHANGED <<instances, n_creates, n_registers, minted, minted_code, reg_owners>>

\* the largest seed the viewing-key store can hold after n create_viewing_key
\* calls; every seed after n + 1 calls is larger
RECURSIVE SeedAfter(_)
SeedAfter(n) ==
    IF n = 0 THEN 0
    ELSE new_entropy(Env([height |-> Heights[Len(Heights)], time |-> Times[Len(Times)]],
                         EnvSenders[Len(EnvSenders)]),
                     SeedAfter(n - 1), Cardinality(Entropies))

\* the seeds the viewing-key store can hold after at most n calls
RECURSIVE SeedsAfter(_)
SeedsAfter(n) ==
    IF n = 0 THEN {0}
    ELSE LET prev == SeedsAfter(n - 1)
         IN prev \cup {new_entropy(Env(block, sender), seed, entropy) :
                          block \in Blocks, sender \in Owners, seed \in prev,
                          entropy \in Entropies}

CreateViewingKey(cap, block, sender, entropy) ==
    LET r == try_create_key(Storage, Env(block, sender), entropy)
    IN /\ Unwrap(r.s.VIEWING_KEYS[SEED_KEY]) <= SeedAfter(cap)
       /\ Commit(r)
       /\ last' = [op |-> "create_key", sender |-> sender, key |-> r.key, ok |-> r.ok]
       /\ UNCHANGED <<instances, n_creates, n_registers, minted, minted_code, reg_owners>>

\* the IsKeyValid query: it reads the storage and answers
IsKeyValid(address, viewing_key) ==
    /\ last' = [op |-> "is_key_valid", address |-> address, key |-> viewing_key,
                ok |-> TRUE, is_valid |-> is_key_valid(Storage, address, viewing_key)]
    /\ UNCHANGED <<factory_vars, instances, n_creates, n_registers, minted, minted_code, reg_owners>>

\* passwords a registration may present: every minted one, and the pending
\* one with a byte changed
Presentable == {minted[i] : i \in 1..Len(minted)} \cup {AlterByte(sha_256(PRNG_SEED))}

\* viewing keys a caller may choose
Keys == 1..MaxKeys

\* strings a caller may present as a viewing key: the chosen ones, the created
\* ones and their neighbours
KeyStrings ==
    LET created == {sha_256(seed) : seed \in SeedsAfter(MaxKeyCreates) \ {0}}
    IN (Keys \cup {0}) \cup created \cup {k + 1 : k \in created}

Creates(blocks, cap, labels) ==
    \E block \in blocks, label \in labels, entropy \in Entropies, owner \in Owners :
        CreateOffspring(cap, block, owner, label, entropy, owner, 0)

Registers(senders, labels) ==
    \E sender \in senders, owner \in Owners, label \in labels, password \in Presentable :
        RegisterOffspring(sender, owner, label, password)

Deactivates(senders) ==
    \E sender \in senders, owner \in Owners : DeactivateOffspring(sender, owner)

OffspringDeactivates(addrs) ==
    \E addr \in addrs, sender \in Owners : OffspringDeactivate(addr, sender)

SetsStatus == \E sender \in AdminSenders, stop \in BOOLEAN : SetStatus(sender, stop)

SetsViewingKey == \E sender \in Owners, key \in Keys : SetViewingKey(sender, key)

CreatesViewingKey(blocks, cap) ==
    \E block \in blocks, sender \in Owners, entropy \in Entropies :
        CreateViewingKey(cap, block, sender, entropy)

\* the strings presented to the key check: the chosen ones, the keys that
\* validate for some account now, and their neighbours
PresentedKeys ==
    LET live == {k \in KeyStrings : \E a \in Owners : ViewingKey_check(Storage, a, k)}
    IN (Keys \cup {0}) \cup live \cup {k + 1 : k \in live}

ChecksKey == \E address \in Owners, key \in PresentedKeys : IsKeyValid(address, key)

\* the registration handshake and the life cycle
Next ==
    \/ Creates(FirstBlock, MaxCreates, {"l1"})
    \/ Registers(Senders(MaxCreates), {"l1"})
    \/ Deactivates(Senders(MaxCreates))
    \/ OffspringDeactivates(Senders(MaxCreates))

Spec == Init /\ [][Next]_vars

\* the registration handshake under the admin's stop switch
NextAdmin ==
    \/ Creates(Blocks, MaxCreates, {"l1"})
    \/ Registers(Senders(MaxCreates), {"l1"})
    \/ SetsStatus

SpecAdmin == Init /\ [][NextAdmin]_vars

\* registrations and the queries that need a viewing key
NextQuery ==
    \/ Creates(FirstBlock, MaxCreates, {"l1"})
    \/ Registers(Senders(MaxCreates), {"l1"})
    \/ SetsViewingKey

SpecQuery == Init /\ [][NextQuery]_vars

\* the accounts whose offspring the list queries are explored with
ListOwners == {"alice"}

\* filters and paging values a list query may carry
Filters == {None, Some("Active"), Some("Inactive"), Some("All")}
Pages == {None, Some(0), Some(1), Some(2), Some(2 ^ 16)}

CreatesFor(blocks, cap, owners) ==
    \E block \in blocks, entropy \in Entropies, owner \in owners :
        CreateOffspring(cap, block, owner, "l1", entropy, owner, 0)

\* registrations that present the pending password
RegistersPending(senders, owners) ==
    /\ IsSome(PENDING_PASSWORD)
    /\ \E sender \in senders, owner \in owners :
          RegisterOffspring(sender, owner, "l1", Unwrap(PENDING_PASSWORD))

DeactivatesFor(senders, owners) ==
    \E sender \in senders, owner \in owners : DeactivateOffspring(sender, owner)

\* one owner's offspring come and go while keys are chosen: what list_mine shows
NextMine ==
    \/ CreatesFor(FirstBlock, MaxCreates, ListOwners)
    \/ RegistersPending(Senders(MaxCreates), ListOwners)
    \/ DeactivatesFor(Senders(MaxCreates), ListOwners)
    \/ SetsViewingKey

SpecMine == Init /\ [][NextMine]_vars

\* one owner's offspring come and go: what the pages of the lists hold
NextPaging ==
    \/ CreatesFor(FirstBlock, MaxListed, ListOwners)
    \/ RegistersPending(Senders(MaxListed), ListOwners)
    \/ DeactivatesFor(Senders(MaxListed), ListOwners)

SpecPaging == Init /\ [][NextPaging]_vars

\* counter values an offspring starts with or is reset to
Counts == {0, i32_MAX - 1}

CreatesCounting(blocks, cap, owners, counts) ==
    \E block \in blocks, entropy \in Entropies, owner \in owners, count \in counts :
        CreateOffspring(cap, block, owner, "l1", entropy, owner, count)

OffspringIncrements(addrs) ==
    \E build \in Builds, addr \in addrs : OffspringIncrement(build, addr)

OffspringResets(addrs, counts) ==
    \E addr \in addrs, sender \in Owners, count \in counts : OffspringReset(addr, sender, count)

\* the offspring's own operations, next to the registrations that let a
\* deactivation through
NextOffspring ==
    \/ CreatesCounting(FirstBlock, MaxCreates, ListOwners, Counts)
    \/ RegistersPending(Senders(MaxCreates), ListOwners)
    \/ OffspringDeactivates(Senders(MaxCreates))
    \/ OffspringIncrements(Senders(MaxCreates))
    \/ OffspringResets(Senders(MaxCreates), Counts)

SpecOffspring == Init /\ [][NextOffspring]_vars

\* viewing keys: created, chosen and checked
NextKeys ==
    \/ CreatesViewingKey(Blocks, MaxKeyCreates)
    \/ SetsViewingKey
    \/ ChecksKey

SpecKeys == Init /\ [][NextKeys]_vars

SetsCode ==
    \E sender \in AdminSenders, offspring_code_info \in CodeInfos :
        NewOffspringContract(sender, offspring_code_info)

\* registrations for one owner, with every password that can be presented
RegistersFor(senders, owners) ==
    \E sender \in senders, owner \in owners, password \in Presentable :
        RegisterOffspring(sender, owner, "l1", password)

SetsViewingKeyFor(owners) == \E sender \in owners, key \in Keys : SetViewingKey(sender, key)

CreatesViewingKeyFor(blocks, cap, owners) ==
    \E block \in blocks, sender \in owners, entropy \in Entropies :
        CreateViewingKey(cap, block, sender, entropy)

ChecksKeyFor(owners) == \E address \in owners, key \in Keys : IsKeyValid(address, key)

\* every message the factory handles, for one owner and one registering
\* address
NextFrame ==
    \/ CreatesFor(FirstBlock, MaxCreates, ListOwners)
    \/ RegistersFor(Senders(1), ListOwners)
    \/ DeactivatesFor(Senders(1), ListOwners)
    \/ SetsStatus
    \/ SetsCode
    \/ SetsViewingKeyFor(ListOwners)
    \/ CreatesViewingKeyFor(FirstBlock, 1, ListOwners)
    \/ ChecksKeyFor(ListOwners)

SpecFrame == Init /\ [][NextFrame]_vars

\* offspring of two owners, registered under either, and deactivated through
\* their own handler only
NextMirror ==
    \/ CreatesFor(Blocks, MaxCreates, Owners)
    \/ RegistersPending(Senders(MaxCreates), Owners)
    \/ OffspringDeactivates(Senders(MaxCreates))

SpecMirror == Init /\ [][NextMirror]_vars

\* permits a query may carry, named by their signer
Permits == {None} \cup {Some([signer |-> o]) : o \in Owners}

QueriesCount(addrs) ==
    \E addr \in addrs, permit \in Permits, address \in {None} \cup {Some(o) : o \in Owners},
       viewing_key \in {None} \cup {Some(k) : k \in Keys \cup {0}} :
        QueryCount(addr, permit, address, viewing_key)

\* offspring with counters, the viewing keys of two accounts and the count query
NextCount ==
    \/ CreatesCounting(FirstBlock, MaxCreates, ListOwners, Counts)
    \/ SetsViewingKey
    \/ QueriesCount(Senders(MaxCreates))

SpecCount == Init /\ [][NextCount]_vars

\* one owner's offspring come and go while that owner chooses keys: what the
\* three list queries answer
NextFilter ==
    \/ CreatesFor(Blocks, MaxCreates, ListOwners)
    \/ RegistersPending(Senders(MaxCreates), ListOwners)
    \/ DeactivatesFor(Senders(MaxCreates), ListOwners)
    \/ SetsViewingKeyFor(ListOwners)

SpecFilter == Init /\ [][NextFilter]_vars

(* ------------------------------ helpers -------------------------------- *)
Registered(a) == IsSome(OFFSPRING_STORAGE[a])
InActive(a) == KeymapContains(ACTIVE_STORE, a)
InInactive(a) == KeymapContains(INACTIVE_STORE, a)
InOwnerActive(o, a) == KeymapContains(OWNERS_ACTIVE[o], a)
InOwnerInactive(o, a) == KeymapContains(OWNERS_INACTIVE[o], a)
\* the owner of a's latest registration
OwnerOf(a) == reg_owners[a][Len(reg_owners[a])]
RegisteredWith(a, o) == \E i \in 1..Len(reg_owners[a]) : reg_owners[a][i] = o
Indices == <<ACTIVE_STORE, INACTIVE_STORE, OWNERS_ACTIVE, OWNERS_INACTIVE>>

(* ------------------------------- claims -------------------------------- *)

\* C1: every registered identity is in the global active index exactly when it
\* is in the owner-scoped active index of the owner it was registered with.
\* The code breaks this: a sender that registers a second time under another
\* owner and is then deactivated under one of them stays in the other owner's
\* active index.
C1_IndexConsistency ==
    \A a \in Offspring :
        Registered(a) => (InActive(a) <=> InOwnerActive(OwnerOf(a), a))

\* C2: every registered identity is in exactly one of the global active and
\* global inactive indices and in exactly one of its owner's active and
\* inactive indices.  The code breaks this: registering again after a
\* deactivation puts the sender in the active indices while it is still in
\* the inactive ones.
C2_ExactlyOneIndex ==
    \A a \in Offspring :
        Registered(a) =>
            /\ InActive(a) # InInactive(a)
            /\ InOwnerActive(OwnerOf(a), a) # InOwnerInactive(OwnerOf(a), a)

\* C3: at most one registration succeeds per create: a successful registration
\* clears the pending slot, a registration presenting the consumed password
\* again fails, and successful registrations never outnumber successful creates.
C3_OneRegistrationPerCreate ==
    /\ n_registers <= n_creates
    /\ (last.op = "register" /\ last.ok) =>
          /\ PENDING_PASSWORD = None
          /\ \A again \in Offspring, owner \in Owners, label \in Labels :
                ~try_register_offspring(Storage, again, owner,
                     [label |-> label, password |-> last.password]).ok

\* a registration replaying the consumed password has failed
C3_Witness ==
    /\ n_creates = 1 /\ n_registers = 1
    /\ last.op = "register" /\ ~last.ok
    /\ last.password = minted[1]

\* C4: a registration fails whenever the pending slot is empty or differs from
\* the presented password, and a failed registration leaves the pending slot,
\* the record store and the four indices as they were.
C4_FailedRegistrationChangesNothing ==
    [][last'.op = "register" =>
         /\ (~IsSome(PENDING_PASSWORD) \/ Unwrap(PENDING_PASSWORD) # last'.password)
               => ~last'.ok
         /\ ~last'.ok => UNCHANGED <<PENDING_PASSWORD, OFFSPRING_STORAGE, Indices>>]_vars

\* a wrong guess was rejected and the password is still pending
C4_Witness ==
    /\ last.op = "register" /\ ~last.ok
    /\ IsSome(PENDING_PASSWORD)
    /\ last.password # Unwrap(PENDING_PASSWORD)

\* C5: a new create invalidates the earlier unregistered password: the pending
\* slot always holds the password minted last, a registration presenting it
\* succeeds, a registration presenting any earlier password fails, and so
\* nothing ever enters an index on the strength of a superseded password.
C5_NewCreateInvalidatesOldPassword ==
    /\ IsSome(PENDING_PASSWORD) =>
          /\ Len(minted) > 0
          /\ Unwrap(PENDING_PASSWORD) = minted[Len(minted)]
    /\ \A sender \in Offspring, owner \in Owners, label \in Labels :
          /\ IsSome(PENDING_PASSWORD) =>
                try_register_offspring(Storage, sender, owner,
                    [label |-> label, password |-> minted[Len(minted)]]).ok
          /\ \A i \in 1..(Len(minted) - 1) :
                ~try_register_offspring(Storage, sender, owner,
                     [label |-> label, password |-> minted[i]]).ok
    /\ (last.op = "register" /\ last.ok) => last.password = minted[Len(minted)]

\* two creates without a registration in between, then a registration
\* presenting the first password was rejected
C5_Witness ==
    /\ n_creates = 2 /\ n_registers = 0
    /\ last.op = "register" /\ ~last.ok
    /\ last.password = minted[1]
    /\ PENDING_PASSWORD = Some(minted[2])

\* number of records in a list that describe the contract at addr
CountOf(list, addr) == Cardinality({i \in 1..Len(list) : list[i].contract.address = addr})

\* C6: right after a successful registration the registering sender appears
\* exactly once in list_active with default paging, and exactly once in the
\* active field of list_mine for its owner under every key that is valid for
\* that owner.
C6_RegisteredAppearsOnce ==
    (last.op = "register" /\ last.ok) =>
        \A build \in Builds :
        LET a == last.sender
            o == OwnerOf(a)
            la == try_list_active(build, Storage, None, None)
        IN /\ la.ok
           /\ CountOf(la.list, a) = 1
           /\ \A key \in Keys :
                 is_key_valid(Storage, o, key) =>
                     LET lm == try_list_my(build, Storage, o, key, Some("Active"), None, None)
                     IN /\ lm.ok
                        /\ lm.answer = "ListMyOffspring"
                        /\ IsSome(lm.active)
                        /\ CountOf(Unwrap(lm.active), a) = 1

\* a sender has just registered for the second time and its owner holds a key
C6_Witness ==
    /\ last.op = "register" /\ last.ok
    /\ Len(reg_owners[last.sender]) = 2
    /\ \E key \in Keys : is_key_valid(Storage, OwnerOf(last.sender), key)

\* addr is missing from list_active and listed once in list_inactive, in the
\* global view and in the owner's view of storage s
MovedToInactive(s, addr, owner) ==
    \A build \in Builds :
        /\ CountOf(try_list_active(build, s, None, None).list, addr) = 0
        /\ CountOf(try_list_inactive(build, s, None, None).list, addr) = 1
        /\ CountOf(display_active_or_inactive_list(build, s, Some(owner), "Active", None, None).list, addr) = 0
        /\ CountOf(display_active_or_inactive_list(build, s, Some(owner), "Inactive", None, None).list, addr) = 1

\* C7 as claimed: a deactivation by a sender in the global active index moves
\* it from active to inactive in the global view and in its owner's view; by
\* any other sender it fails and changes no index.  The code also rejects a
\* sender that is in the global active index when the owner named in the call
\* does not hold it in its active index.
C7_DeactivateMovesActiveSender ==
    [][last'.op = "deactivate" =>
         /\ InActive(last'.sender) =>
               (last'.ok /\ MovedToInactive(Storage', last'.sender, OwnerOf(last'.sender)))
         /\ ~InActive(last'.sender) => (~last'.ok /\ UNCHANGED Indices)]_vars

\* C7 amended: the deactivation succeeds exactly when the sender is in the
\* global active index and in the active index of the owner named in the call;
\* then it moves the sender from active to inactive in the global view and in
\* that owner's view; a failed deactivation changes no index.
C7_DeactivateMovesUnderNamedOwner ==
    [][last'.op = "deactivate" =>
         /\ last'.ok <=> (InActive(last'.sender) /\ InOwnerActive(last'.owner, last'.sender))
         /\ last'.ok => MovedToInactive(Storage', last'.sender, last'.owner)
         /\ ~last'.ok => UNCHANGED Indices]_vars

\* a deactivation has moved a registered sender
C7_Witness ==
    /\ last.op = "deactivate" /\ last.ok
    /\ InInactive(last.sender) /\ ~InActive(last.sender)

\* C8: inactive is terminal: an identity in the global inactive index is never
\* again in the global active index, and a local active flag that is false
\* stays false.  The code breaks the first half: a sender that registers again
\* after its deactivation is put back into the active index.
C8_InactiveIsTerminal ==
    [][/\ \A a \in Offspring : InInactive(a) => ~InActive(a)'
       /\ \A a \in Offspring :
             (IsSome(instances[a]) /\ ~Unwrap(instances[a]).is_active) =>
                 (IsSome(instances[a]) /\ ~Unwrap(instances[a]).is_active)']_vars

\* C9: set_status by a sender other than the admin fails and leaves the flag
\* as it was; by the admin it succeeds and stores the flag; every create issued
\* while the flag is true fails and changes neither the seed, the pending slot,
\* the records nor any index.
C9_StopSwitch ==
    [][/\ (last'.op = "set_status" /\ last'.sender # ADMIN) =>
              (~last'.ok /\ IS_STOPPED' = IS_STOPPED)
       /\ (last'.op = "set_status" /\ last'.sender = ADMIN) =>
              (last'.ok /\ IS_STOPPED' = last'.stop)
       /\ (last'.op = "create" /\ IS_STOPPED) =>
              (~last'.ok /\ UNCHANGED <<PRNG_SEED, PENDING_PASSWORD, OFFSPRING_STORAGE, Indices>>)]_vars

\* a create was rejected by the stopped factory while a password was pending
C9_Witness ==
    /\ IS_STOPPED
    /\ last.op = "create" /\ ~last.ok
    /\ IsSome(PENDING_PASSWORD)

\* C10: an identity is in an owner's active or inactive index only if it
\* registered with that owner.
C10_NoCrossScopeLeak ==
    \A o \in Owners, a \in Offspring :
        (InOwnerActive(o, a) \/ InOwnerInactive(o, a)) => RegisteredWith(a, o)

\* a deactivation naming an owner that does not hold the active sender was rejected
C10_Witness ==
    /\ last.op = "deactivate" /\ ~last.ok
    /\ InActive(last.sender)
    /\ ~InOwnerActive(last.owner, last.sender)

\* C11: right after create_viewing_key the returned key, and no other string,
\* validates for the identity that created it; for an identity that has
\* never created or set a key no string validates.
C11_CreatedKeyValidates ==
    /\ last.op = "create_key" =>
          \A k \in KeyStrings : is_key_valid(Storage, last.sender, k) <=> (k = last.key)
    /\ \A a \in Owners :
          VIEWING_KEYS[a] = None => \A k \in KeyStrings : ~is_key_valid(Storage, a, k)

\* a key was created while another identity still has none
C11_Witness ==
    /\ last.op = "create_key"
    /\ \E a \in Owners : a # last.sender /\ VIEWING_KEYS[a] = None

\* C12: create_viewing_key or set_viewing_key by an identity leaves that
\* identity with exactly one validating key, the new one (so the previous key
\* stops validating at once), and never changes the key of another identity.
C12_OneLiveKey ==
    [][last'.op \in {"create_key", "set_key"} =>
         /\ \A k \in KeyStrings :
               is_key_valid(Storage', last'.sender, k) <=> (k = last'.key)
         /\ \A a \in Owners \ {last'.sender} : VIEWING_KEYS'[a] = VIEWING_KEYS[a]]_vars

\* one identity created two keys in turn and then chose a third
C12_Witness ==
    /\ last.op = "set_key"
    /\ IsSome(VIEWING_KEYS[SEED_KEY])
    /\ Unwrap(VIEWING_KEYS[SEED_KEY]) > SeedAfter(MaxKeyCreates - 1)
    /\ \A a \in Owners \ {last.sender} : VIEWING_KEYS[a] = None

\* the storage right after init, with nothing but a's stored key copied in
OnlyKeyOf(a) ==
    [init(InitSender, InitEntropy, InitCodeInfo) EXCEPT !.VIEWING_KEYS[a] = VIEWING_KEYS[a]]

\* C13: the is_key_valid query changes no factory state, and its answer is the
\* one it gives in a storage that shares nothing with the current one but
\* the stored key of the queried identity.
C13_KeyCheckReadsOnlyThatKey ==
    [][last'.op = "is_key_valid" =>
         /\ UNCHANGED <<factory_vars, instances>>
         /\ last'.is_valid = is_key_valid(OnlyKeyOf(last'.address), last'.address, last'.key)]_vars

\* a key was found valid while the other identity holds a different key
C13_Witness ==
    /\ last.op = "is_key_valid" /\ last.is_valid
    /\ \E a \in Owners :
          /\ a # last.address
          /\ IsSome(VIEWING_KEYS[a])
          /\ VIEWING_KEYS[a] # VIEWING_KEYS[last.address]

\* what list_mine answers when the key does not validate
ViewingKeyError == [ok |-> TRUE, answer |-> "ViewingKeyError", active |-> None, inactive |-> None,
          err |-> ""]

\* C14: list_mine with a key that does not validate for the identity answers
\* with the viewing-key error and no list, the same answer whether the identity
\* has no key or another key, whatever the filter and the paging.
C14_BadKeyRevealsNothing ==
    \A build \in Builds, address \in Owners, key \in Keys \cup {0},
       filter \in Filters, start_page \in Pages, page_size \in Pages :
        ~is_key_valid(Storage, address, key) =>
            try_list_my(build, Storage, address, key, filter, start_page, page_size)
                = ViewingKeyError

\* an owner with offspring and a key is asked with another key, while another
\* identity has no key at all
C14_Witness ==
    /\ \E a \in ListOwners, key \in Keys :
          /\ IsSome(VIEWING_KEYS[a]) /\ ~is_key_valid(Storage, a, key)
          /\ Len(OWNERS_ACTIVE[a]) > 0 /\ Len(OWNERS_INACTIVE[a]) > 0
    /\ \E b \in Owners : VIEWING_KEYS[b] = None

\* paging values list_mine is explored with: unset, a page inside the index,
\* and a page whose offset does not fit 32 bits
PagePairs == {<<None, None>>, <<Some(1), Some(1)>>, <<Some(2 ^ 16), Some(2 ^ 16)>>}

\* C15: whenever list_mine answers a valid key, the active field is set
\* exactly when the filter is Active, All or absent, the inactive field exactly
\* when it is Inactive, All or absent, and a set field holds that index's
\* page; with unset paging it always answers.
C15_FilterSelectsFields ==
    \A build \in Builds, address \in Owners, key \in Keys, filter \in Filters, paging \in PagePairs :
        is_key_valid(Storage, address, key) =>
            LET lm == try_list_my(build, Storage, address, key, filter, paging[1], paging[2])
                types == unwrap_or(filter, "All")
            IN /\ paging = <<None, None>> => lm.ok
               /\ lm.ok =>
                     /\ lm.answer = "ListMyOffspring"
                     /\ IsSome(lm.active) <=> types \in {"Active", "All"}
                     /\ IsSome(lm.inactive) <=> types \in {"Inactive", "All"}
                     /\ IsSome(lm.active) =>
                           Unwrap(lm.active) = display_active_or_inactive_list(build, Storage,
                               Some(address), "Active", paging[1], paging[2]).list
                     /\ IsSome(lm.inactive) =>
                           Unwrap(lm.inactive) = display_active_or_inactive_list(build, Storage,
                               Some(address), "Inactive", paging[1], paging[2]).list

\* an owner with a valid key has an active and an inactive offspring
C15_Witness ==
    \E a \in ListOwners, key \in Keys :
        /\ is_key_valid(Storage, a, key)
        /\ Len(OWNERS_ACTIVE[a]) > 0 /\ Len(OWNERS_INACTIVE[a]) > 0
        /\ try_list_my(CHOOSE b \in Builds : TRUE, Storage, a, key, Some("Active"), None, None).inactive = None

\* the index a list query with this owner and filter reads, in storage s
IndexOf(s, owner, filter) ==
    IF filter = "Active"
    THEN (IF IsSome(owner) THEN s.OWNERS_ACTIVE[Unwrap(owner)] ELSE s.ACTIVE_STORE)
    ELSE (IF IsSome(owner) THEN s.OWNERS_INACTIVE[Unwrap(owner)] ELSE s.INACTIVE_STORE)

\* start * size, or len when the product is len or more
OffsetUpTo(start, size, len) ==
    IF start = 0 \/ size = 0 THEN 0
    ELSE IF start >= len \/ size >= len THEN len
    ELSE IF start * size < len THEN start * size ELSE len

\* the owners a list query may name
ListScopes == {None} \cup {Some(o) : o \in ListOwners}

\* C16: every list query returns the records of the index elements at
\* positions start_page*page_size up to start_page*page_size + page_size, in
\* enumeration order, start_page defaulting to 0 and page_size to 200.  The
\* code breaks this where the product does not fit 32 bits (C18).
C16_PageIsOffsetAndLimit ==
    \A build \in Builds, owner \in ListScopes, filter \in {"Active", "Inactive"},
       start_page \in Pages, page_size \in Pages :
        LET index == IndexOf(Storage, owner, filter)
            start == unwrap_or(start_page, 0)
            size == unwrap_or(page_size, DEFAULT_PAGE_SIZE)
            keys == SkipTake(index, OffsetUpTo(start, size, Len(index)), size)
            r == display_active_or_inactive_list(build, Storage, owner, filter, start_page, page_size)
        IN /\ r.ok
           /\ r.list = [i \in 1..Len(keys) |-> Unwrap(OFFSPRING_STORAGE[keys[i]])]

\* the contract addresses of the records a list query with default paging returns
ListedKeys(s, owner, filter) ==
    LET r == display_active_or_inactive_list(CHOOSE b \in Builds : TRUE, s, owner, filter, None, None)
    IN [i \in 1..Len(r.list) |-> r.list[i].contract.address]

\* the members both lists hold are in the same order, and the members only
\* the new list holds come after them
InsertionOrderKept(old, new) ==
    /\ \A i, j \in 1..Len(old) : \A k, l \in 1..Len(new) :
          (i < j /\ old[i] = new[k] /\ old[j] = new[l]) => k < l
    /\ \A i \in 1..Len(old) : \A k, l \in 1..Len(new) :
          (old[i] = new[k] /\ ~KeymapContains(old, new[l])) => k < l

\* C17: list_active and list_inactive, global and per owner, return the
\* remaining members in the order of their insertion: no step changes the
\* relative order of two members, and new members come last.  The code breaks
\* this when a deactivation removes a member that is not the last of an active
\* index: Keymap::remove puts the last member in its place.
C17_InsertionOrder ==
    [][\A owner \in ListScopes, filter \in {"Active", "Inactive"} :
          InsertionOrderKept(ListedKeys(Storage, owner, filter),
                             ListedKeys(Storage', owner, filter))]_vars

\* C18: a list query whose offset start_page*page_size is at or beyond the
\* size of the index, or whose page_size is 0, returns the empty list.  The
\* code breaks this where the product does not fit 32 bits: the number of
\* elements skipped is the product modulo 2^32, which falls into the index, or
\* the query aborts when a 32-bit usize overflows with overflow checks on.
C18_PageBeyondRangeIsEmpty ==
    \A build \in Builds, owner \in ListScopes, filter \in {"Active", "Inactive"},
       start_page \in Pages, page_size \in Pages :
        LET index == IndexOf(Storage, owner, filter)
            start == unwrap_or(start_page, 0)
            size == unwrap_or(page_size, DEFAULT_PAGE_SIZE)
            r == display_active_or_inactive_list(build, Storage, owner, filter, start_page, page_size)
        IN (OffsetUpTo(start, size, Len(index)) = Len(index) \/ size = 0) =>
               (r.ok /\ r.list = <<>>)

\* the owners a list query may name, over every account
AllScopes == {None} \cup {Some(o) : o \in Owners}

\* C19: every key held in one of the four indices has a record in the record
\* store, and no list query fails on a record it cannot load.
C19_IndexedKeysHaveRecords ==
    /\ \A a \in Offspring :
          (\/ InActive(a) \/ InInactive(a)
           \/ \E o \in Owners : InOwnerActive(o, a) \/ InOwnerInactive(o, a)) => Registered(a)
    /\ \A owner \in AllScopes, filter \in {"Active", "Inactive"} :
          LET r == display_active_or_inactive_list(CHOOSE b \in Builds : TRUE, Storage,
                                                   owner, filter, None, None)
          IN r.ok /\ Len(r.list) = Len(IndexOf(Storage, owner, filter))

\* all four kinds of index hold a key
C19_Witness ==
    /\ Len(ACTIVE_STORE) > 0 /\ Len(INACTIVE_STORE) > 0
    /\ \E o \in Owners : Len(OWNERS_ACTIVE[o]) > 0
    /\ \E o \in Owners : Len(OWNERS_INACTIVE[o]) > 0

\* C20: on an offspring whose flag is inactive, increment, reset and a
\* further deactivate are all rejected and leave every offspring's counter
\* and flag as they were.
C20_InactiveRejectsMutations ==
    [][(/\ last'.op \in {"increment", "reset", "offspring_deactivate"}
        /\ IsSome(instances[last'.addr])
        /\ ~Unwrap(instances[last'.addr]).is_active)
           => (~last'.ok /\ instances' = instances)]_vars

\* the owner's reset was rejected by its deactivated offspring, whose counter
\* had been incremented
C20_Witness ==
    /\ last.op = "reset" /\ ~last.ok
    /\ IsSome(instances[last.addr])
    /\ ~Unwrap(instances[last.addr]).is_active
    /\ last.sender = Unwrap(instances[last.addr]).owner
    /\ Unwrap(instances[last.addr]).count = 1

\* C21: an offspring's flag goes from active to inactive only in a successful
\* deactivate sent to it by its stored owner, which emits exactly one
\* DeactivateOffspring message carrying that owner; a deactivate sent to an
\* active offspring by anyone else fails with Unauthorized and changes no
\* offspring.
C21_OnlyOwnerDeactivates ==
    [][/\ \A a \in Offspring :
            (/\ IsSome(instances[a]) /\ Unwrap(instances[a]).is_active
             /\ IsSome(instances'[a]) /\ ~Unwrap(instances'[a]).is_active)
                => /\ last'.op = "offspring_deactivate" /\ last'.addr = a /\ last'.ok
                   /\ last'.sender = Unwrap(instances[a]).owner
                   /\ last'.msgs = <<[owner |-> Unwrap(instances[a]).owner]>>
       /\ (/\ last'.op = "offspring_deactivate"
           /\ IsSome(instances[last'.addr])
           /\ Unwrap(instances[last'.addr]).is_active
           /\ last'.sender # Unwrap(instances[last'.addr]).owner)
              => (~last'.ok /\ last'.err = "Unauthorized" /\ instances' = instances)]_vars

\* an owner deactivated its registered offspring, after somebody else's
\* deactivate had been refused
C21_Witness ==
    /\ last.op = "offspring_deactivate" /\ last.ok
    /\ ~Unwrap(instances[last.addr]).is_active
    /\ last.sender = Unwrap(instances[last.addr]).owner
    /\ Len(last.msgs) = 1
    /\ InInactive(last.addr)

\* C22: the offspring constructed by a successful create_offspring emits one
\* RegisterOffspring message to the factory, carrying its owner, its label
\* and the password of its InstantiateMsg.
C22_InstantiateRegisters ==
    (last.op = "create" /\ last.ok)
        => LET inst == Unwrap(instances[ContractAddrs[n_creates]])
           IN last.msgs = <<[owner |-> inst.owner,
                             offspring |-> [label |-> inst.label,
                                            password |-> minted[Len(minted)]]]>>

\* C23: create_offspring succeeds exactly when the factory is not stopped,
\* whether or not a password is pending; a successful one leaves in the
\* pending slot the password of the instantiate message it returned and
\* changes no index and no record.
C23_CreateOverwritesPendingOnly ==
    [][last'.op = "create"
          => /\ last'.ok <=> ~IS_STOPPED
             /\ last'.ok => /\ PENDING_PASSWORD' = Some(minted'[Len(minted')])
                             /\ Len(minted') = Len(minted) + 1
                             /\ Indices' = Indices
                             /\ OFFSPRING_STORAGE' = OFFSPRING_STORAGE]_vars

\* a create succeeded while the password of the one before was still pending
C23_Witness ==
    /\ last.op = "create" /\ last.ok
    /\ Len(minted) = 2 /\ n_registers = 0
    /\ PENDING_PASSWORD = Some(minted[2])
    /\ minted[1] # minted[2]

\* C24: the pending password changes only in a successful create_offspring,
\* which overwrites it, or a successful register_offspring, which removes it;
\* every other message, every failed call and every query leaves it as it
\* was, so a registration presenting it succeeds whatever was handled since
\* the create that minted it.
C24_PendingChangesOnlyByCreateOrRegister ==
    [][/\ PENDING_PASSWORD' # PENDING_PASSWORD
            => /\ last'.ok
               /\ \/ last'.op = "create" /\ PENDING_PASSWORD' = Some(minted'[Len(minted')])
                  \/ last'.op = "register" /\ PENDING_PASSWORD' = None
       /\ (last'.op = "register" /\ last'.ok) => PENDING_PASSWORD' = None
       /\ (/\ last'.op = "register"
           /\ IsSome(PENDING_PASSWORD)
           /\ last'.password = Unwrap(PENDING_PASSWORD)) => last'.ok]_vars

\* a password is still pending after the factory was stopped, the offspring
\* code replaced, a viewing key set and a deactivation refused
C24_Witness ==
    /\ Len(minted) > 0
    /\ PENDING_PASSWORD = Some(minted[Len(minted)])
    /\ IS_STOPPED
    /\ OFFSPRING_CODE # InitCodeInfo
    /\ \E o \in Owners : IsSome(VIEWING_KEYS[o])
    /\ last.op = "deactivate" /\ ~last.ok

\* what neither admin command may touch
NotConfig == <<ADMIN, PENDING_PASSWORD, PRNG_SEED, OFFSPRING_STORAGE, Indices,
               VIEWING_KEYS, instances>>

\* C25: new_offspring_contract and set_status sent by anyone but the stored
\* admin fail and change nothing; sent by the admin they succeed and change
\* only the offspring code, respectively only the stopped flag: the pending
\* password, the seed, the records, the indices and the viewing keys stay.
C25_AdminCommandsChangeOwnField ==
    [][/\ last'.op = "new_contract"
            => IF last'.sender = ADMIN
               THEN /\ last'.ok /\ OFFSPRING_CODE' = last'.code
                    /\ IS_STOPPED' = IS_STOPPED /\ NotConfig' = NotConfig
               ELSE ~last'.ok /\ <<factory_vars, instances>>' = <<factory_vars, instances>>
       /\ last'.op = "set_status"
            => IF last'.sender = ADMIN
               THEN /\ last'.ok /\ IS_STOPPED' = last'.stop
                    /\ OFFSPRING_CODE' = OFFSPRING_CODE /\ NotConfig' = NotConfig
               ELSE ~last'.ok /\ <<factory_vars, instances>>' = <<factory_vars, instances>>]_vars

\* the admin replaced the offspring code on a stopped factory that holds a
\* pending password, a record and a viewing key
C25_Witness ==
    /\ last.op = "new_contract" /\ last.ok /\ last.sender = ADMIN
    /\ OFFSPRING_CODE = last.code /\ OFFSPRING_CODE # InitCodeInfo
    /\ IS_STOPPED
    /\ IsSome(PENDING_PASSWORD)
    /\ \E a \in Offspring : Registered(a)
    /\ \E o \in Owners : IsSome(VIEWING_KEYS[o])

\* C26: once an address has a record in OFFSPRING_STORAGE, the record's
\* address, code hash and label stay as they are whatever is handled later,
\* a further register_offspring by the same sender included.
C26_RecordIsImmutable ==
    [][\A a \in Offspring :
          Registered(a) => OFFSPRING_STORAGE'[a] = OFFSPRING_STORAGE[a]]_vars

\* C27: every registered address that runs an offspring has its local flag
\* cleared exactly when it is in the factory's global inactive index: a
\* deactivate whose message the factory rejects leaves the flag set.
C27_FlagMirrorsInactiveIndex ==
    \A a \in Offspring :
        (Registered(a) /\ IsSome(instances[a]))
            => (~Unwrap(instances[a]).is_active <=> InInactive(a))

\* the factory rejected the DeactivateOffspring message of a registered
\* offspring, whose flag is still set, while another offspring is inactive in
\* both contracts
C27_Witness ==
    /\ last.op = "offspring_deactivate" /\ ~last.ok /\ last.err = "factory"
    /\ Registered(last.addr)
    /\ Unwrap(instances[last.addr]).is_active
    /\ \E a \in Offspring :
          /\ Registered(a) /\ IsSome(instances[a])
          /\ ~Unwrap(instances[a]).is_active /\ InInactive(a)

\* C28: GetCount answers with the counter only when address and viewing key
\* are both given, the factory's is_key_valid holds for them and the address
\* is the offspring's stored owner; in every other case it answers with an
\* error and no count.
C28_CountOnlyForOwnerWithValidKey ==
    last.op = "get_count"
        => LET inst == Unwrap(instances[last.addr])
           IN \/ /\ IsSome(last.address) /\ IsSome(last.viewing_key)
                 /\ VIEWING_KEYS[Unwrap(last.address)]
                        = Some(sha_256(Unwrap(last.viewing_key)))
                 /\ Unwrap(last.address) = inst.owner
                 /\ last.count \in {None, Some(inst.count)}
              \/ ~last.ok /\ last.count = None

\* the owner read a counter with its key, which the other account also uses
C28_Witness ==
    /\ last.op = "get_count" /\ last.ok
    /\ last.count = Some(Unwrap(instances[last.addr]).count)
    /\ Unwrap(last.count) # 0
    /\ \E o \in Owners : o # Unwrap(last.address) /\ VIEWING_KEYS[o] = VIEWING_KEYS[Unwrap(last.address)]

\* C29: the code hash a successful register_offspring stores is the one of
\* the offspring code that was in force at the create_offspring whose
\* password it presented, whatever new_offspring_contract did in between.
C29_RecordHasCodeOfItsCreate ==
    [][(last'.op = "register" /\ last'.ok)
          => \E i \in 1..Len(minted) :
                /\ minted[i] = last'.password
                /\ Unwrap(OFFSPRING_STORAGE'[last'.sender]).contract.code_hash
                      = minted_code[i].code_hash]_vars

\* the storage with the stopped flag as given
WithStopped(s, stop) == [s EXCEPT !.IS_STOPPED = stop]

\* two results of a handler agree on everything but the stopped flag
SameButStopped(r1, r2) ==
    /\ r1.ok = r2.ok /\ r1.msgs = r2.msgs
    /\ WithStopped(r1.s, FALSE) = WithStopped(r2.s, FALSE)

\* C30: of the factory's messages only create_offspring looks at the stopped
\* flag: a registration presenting the pending password succeeds on a stopped
\* factory, and register, deactivate, the viewing-key messages and the
\* queries give the same result and the same storage on the stopped and on
\* the running factory.
C30_StopGatesOnlyCreate ==
    LET running == WithStopped(Storage, FALSE)
        stopped == WithStopped(Storage, TRUE)
    IN /\ \A block \in Blocks, owner \in ListOwners, entropy \in Entropies :
             ~try_create_offspring(stopped, Env(block, owner), "l1", entropy, owner, 0).ok
       /\ \A sender \in Senders(1), owner \in ListOwners :
             /\ IsSome(PENDING_PASSWORD)
                   => try_register_offspring(stopped, sender, owner,
                          [label |-> "l1", password |-> Unwrap(PENDING_PASSWORD)]).ok
             /\ \A password \in Presentable :
                   SameButStopped(
                       try_register_offspring(running, sender, owner,
                                              [label |-> "l1", password |-> password]),
                       try_register_offspring(stopped, sender, owner,
                                              [label |-> "l1", password |-> password]))
             /\ SameButStopped(try_deactivate_offspring(running, sender, owner),
                               try_deactivate_offspring(stopped, sender, owner))
       /\ \A account \in ListOwners, key \in Keys :
             /\ SameButStopped(try_set_key(running, account, key),
                               try_set_key(stopped, account, key))
             /\ is_key_valid(running, account, key) = is_key_valid(stopped, account, key)
             /\ \A build \in Builds :
                   try_list_my(build, running, account, key, None, None, None)
                       = try_list_my(build, stopped, account, key, None, None, None)
       /\ \A block \in Blocks, account \in ListOwners, entropy \in Entropies :
             /\ SameButStopped(try_create_key(running, Env(block, account), entropy),
                               try_create_key(stopped, Env(block, account), entropy))
             /\ try_create_key(running, Env(block, account), entropy).key
                   = try_create_key(stopped, Env(block, account), entropy).key
       /\ \A build \in Builds :
             /\ try_list_active(build, running, None, None)
                   = try_list_active(build, stopped, None, None)
             /\ try_list_inactive(build, running, None, None)
                   = try_list_inactive(build, stopped, None, None)

\* a registration succeeded on the stopped factory, which holds a viewing key
C30_Witness ==
    /\ IS_STOPPED
    /\ last.op = "register" /\ last.ok
    /\ Registered(last.sender) /\ InActive(last.sender)
    /\ \E o \in Owners : IsSome(VIEWING_KEYS[o])

\* C31: the membership of an address in the global active index and in the
\* global inactive index, and its stored record, change only in a successful
\* register_offspring or deactivate_offspring whose sender is that address
\* (the offspring itself, when the message comes from its deactivate): no
\* message sent by another address changes them.
C31_OnlySenderEntriesChange ==
    [][\A a \in Offspring :
          (\/ InActive(a)' # InActive(a)
           \/ InInactive(a)' # InInactive(a)
           \/ OFFSPRING_STORAGE'[a] # OFFSPRING_STORAGE[a])
              => /\ last'.ok
                 /\ \/ last'.op \in {"register", "deactivate"} /\ last'.sender = a
                    \/ last'.op = "offspring_deactivate" /\ last'.addr = a]_vars

\* an address was deactivated while two others stayed in the global active
\* index, one of which took its position
C31_Witness ==
    /\ last.op = "deactivate" /\ last.ok
    /\ InInactive(last.sender) /\ ~InActive(last.sender)
    /\ Len(ACTIVE_STORE) = 2
    /\ \A i \in 1..2 : /\ ACTIVE_STORE[i] # last.sender
                        /\ Registered(ACTIVE_STORE[i])
    /\ KeymapPos(<<ContractAddrs[1], ContractAddrs[2], ContractAddrs[3]>>, ACTIVE_STORE[1])
          > KeymapPos(<<ContractAddrs[1], ContractAddrs[2], ContractAddrs[3]>>, ACTIVE_STORE[2])

\* C32: an offspring whose address never had a registration accepted keeps
\* its flag set: the deactivate its owner sends is rejected by the factory,
\* where the address is not in the global active index, and the failed
\* transaction changes no offspring and no index.
C32_UnregisteredStaysActive ==
    [][/\ \A a \in Offspring :
            (IsSome(instances'[a]) /\ reg_owners'[a] = <<>>)
                => Unwrap(instances'[a]).is_active
       /\ (/\ last'.op = "offspring_deactivate"
           /\ reg_owners[last'.addr] = <<>>)
              => /\ ~last'.ok
                 /\ instances' = instances /\ Indices' = Indices
                 /\ last'.sender = Unwrap(instances[last'.addr]).owner
                       => (~InActive(last'.addr) /\ last'.err = "factory")]_vars

\* the factory rejected the deactivate of an offspring that never registered,
\* sent by its owner, while another offspring is registered and inactive
C32_Witness ==
    /\ last.op = "offspring_deactivate" /\ ~last.ok /\ last.err = "factory"
    /\ reg_owners[last.addr] = <<>>
    /\ last.sender = Unwrap(instances[last.addr]).owner
    /\ Unwrap(instances[last.addr]).is_active
    /\ \E a \in Offspring :
          InInactive(a) /\ IsSome(instances[a]) /\ ~Unwrap(instances[a]).is_active

\* C33: the stored admin is the sender of the InitMsg, after init and after
\* every message handled since.
C33_AdminIsInitSender ==
    ADMIN = InitSender

\* the admin is unchanged after it stopped the factory and replaced the
\* offspring code, and after another sender's admin command was refused
C33_Witness ==
    /\ ADMIN = InitSender
    /\ IS_STOPPED /\ OFFSPRING_CODE # InitCodeInfo
    /\ last.op \in {"set_status", "new_contract"} /\ ~last.ok
    /\ last.sender # InitSender
    /\ n_registers > 0

\* C34: no list_active, list_inactive or list_mine query, whatever its
\* filter, paging and key, fails with the list helper's error for the filter
\* All; list_mine without a filter or with All answers with both lists.
C34_FilterAllErrorUnreachable ==
    \A build \in Builds, paging \in PagePairs :
        /\ try_list_active(build, Storage, paging[1], paging[2]).err # "filter"
        /\ try_list_inactive(build, Storage, paging[1], paging[2]).err # "filter"
        /\ \A address \in ListOwners, key \in Keys, filter \in Filters :
              LET lm == try_list_my(build, Storage, address, key, filter,
                                    paging[1], paging[2])
              IN /\ lm.err # "filter"
                 /\ (lm.ok /\ lm.answer = "ListMyOffspring"
                        /\ unwrap_or(filter, "All") = "All")
                       => IsSome(lm.active) /\ IsSome(lm.inactive)

\* list_mine with the filter All and the owner's key answers with an active
\* and an inactive offspring
C34_Witness ==
    \E address \in ListOwners, key \in Keys, build \in Builds :
        LET lm == try_list_my(build, Storage, address, key, Some("All"), None, None)
        IN /\ lm.ok /\ lm.answer = "ListMyOffspring" /\ lm.err = ""
           /\ IsSome(lm.active) /\ Len(Unwrap(lm.active)) > 0
           /\ IsSome(lm.inactive) /\ Len(Unwrap(lm.inactive)) > 0

====
